---------------------------- MODULE Spec2Model ----------------------------
(***************************************************************************)
(* Raid encounter registry and moveset resolver (raid_manager.py) and the  *)
(* sprite URL helper (sprite_helper.py).                                   *)
(*                                                                         *)
(* Python's Optional values are written as sequences of length at most     *)
(* one: NoneVal is None, Some(x) is the value x.                           *)
(***************************************************************************)
EXTENDS Integers, Sequences, FiniteSets, TLC

VARIABLES
    active_raids,   \* RaidManager.active_raids: dict location_id -> RaidEncounter
    uuid_next,      \* number of uuid4() values drawn so far
    clock,          \* what time.time() returns now; readings increase
    last,           \* the last public call: its arguments and its outcome
    resolver_call,  \* arguments of the _generate_raid_moveset call made by the last call
    latest,         \* history: per location, the last successful create not yet cleared
    learnset,       \* resolver run: what get_moves_at_level returned
    fallback,       \* resolver run: what get_starting_moves returned
    selected,       \* resolver run: what _generate_raid_moveset returned
    rpc,            \* resolver run: "idle" | "ready" | "done"
    thr,            \* concurrent callers: each thread's position and local variables
    sprite_args,    \* sprite helper: the arguments of a get_sprite call
    sprite_ret      \* sprite helper: what the call returned or raised

vars == <<active_raids, uuid_next, clock, last, resolver_call, latest,
          learnset, fallback, selected, rpc, thr, sprite_args, sprite_ret>>

registryVars == <<active_raids, uuid_next, clock, last, resolver_call, latest>>
resolverVars == <<learnset, fallback, selected, rpc>>
raceVars == <<thr>>
spriteVars == <<sprite_args, sprite_ret>>

NoneVal == <<>>
Some(x) == <<x>>
IsNone(o) == Len(o) = 0
Value(o) == o[1]

Max2(a, b) == IF a >= b THEN a ELSE b
Min2(a, b) == IF a <= b THEN a ELSE b

Range(s) == {s[i] : i \in 1..Len(s)}
NoDuplicates(s) == \A i, j \in 1..Len(s) : i # j => s[i] # s[j]

\* s[:n] for n >= 0
Take(s, n) == SubSeq(s, 1, Min2(n, Len(s)))

----------------------------------------------------------------------------
(* Bounds of the exploration *)

MaxRaids == 2
MaxInputMoves == 7

Locations == {"route1", "cave"}
SpeciesIdentifiers == {"025", "missingno"}
LevelInputs == {0, 1, 12, 300, 301}
Creators == {42}
Sources == {"manual"}

----------------------------------------------------------------------------
(* Collaborators: species, move metadata and learnset databases *)

SpeciesDb ==
    [i \in {"pikachu", "025"} |-> [name |-> "Pikachu", dex_number |-> 25]]

get_species(identifier) ==
    IF identifier \in DOMAIN SpeciesDb THEN Some(SpeciesDb[identifier]) ELSE NoneVal

\* move metadata records; "splash" has a record without a category and
\* "mystery" has no record at all
MoveData ==
    [m \in {"tackle", "ember", "slash", "surf", "bite", "growl", "leer", "splash"} |->
        CASE m \in {"tackle", "slash", "bite"} -> [category |-> Some("physical")]
          [] m \in {"ember", "surf"} -> [category |-> Some("special")]
          [] m \in {"growl", "leer"} -> [category |-> Some("status")]
          [] OTHER -> [category |-> NoneVal]]

MoveIds == DOMAIN MoveData \cup {"mystery"}

get_move(move_id) ==
    IF move_id \in DOMAIN MoveData THEN Some(MoveData[move_id]) ELSE NoneVal

\* learnset rows <<move, level learned>> in learnset order
LearnsetDb ==
    [n \in {"Pikachu"} |->
        << <<"growl", 1>>, <<"tackle", 1>>, <<"ember", 5>>, <<"tackle", 9>>,
           <<"slash", 40>>, <<"leer", 120>>, <<"surf", 300>>, <<"bite", 400>> >>]

StartingMovesDb ==
    [n \in {"Pikachu"} |-> << <<"splash", 1>>, <<"growl", 1>>, <<"mystery", 1>> >>]

RECURSIVE RowsUpTo(_, _)
RowsUpTo(rows, level) ==
    IF rows = <<>> THEN <<>>
    ELSE (IF rows[1][2] <= level THEN <<rows[1][1]>> ELSE <<>>)
            \o RowsUpTo(Tail(rows), level)

get_moves_at_level(species_name, level) ==
    IF species_name \in DOMAIN LearnsetDb
        THEN RowsUpTo(LearnsetDb[species_name], level) ELSE <<>>

get_starting_moves(species_name, level, max_moves) ==
    IF species_name \in DOMAIN StartingMovesDb
        THEN Take(RowsUpTo(StartingMovesDb[species_name], level), max_moves) ELSE <<>>

\* models.Pokemon(species_data, level, owner_discord_id)
Pokemon(species_data, level, owner_discord_id) ==
    [species_name |-> species_data.name,
     species_dex_number |-> species_data.dex_number,
     level |-> level,
     owner_discord_id |-> owner_discord_id]

----------------------------------------------------------------------------
(* RaidManager *)

MAX_LEVEL == 300

\* move_data.get("category") in {"physical", "special"}, with move_data = get_move(id) or {}
IsAttackMove(move_id) ==
    LET move_data == get_move(move_id)
    IN  /\ ~IsNone(move_data)
        /\ ~IsNone(Value(move_data).category)
        /\ Value(Value(move_data).category) \in {"physical", "special"}

\* the partition loop over available_moves: <<attack_moves, support_moves>>
RECURSIVE PartitionMoves(_, _, _)
PartitionMoves(available_moves, attack_moves, support_moves) ==
    IF available_moves = <<>> THEN <<attack_moves, support_moves>>
    ELSE LET move_id == Head(available_moves)
         IN  IF IsAttackMove(move_id)
                THEN PartitionMoves(Tail(available_moves),
                        IF move_id \notin Range(attack_moves)
                            THEN Append(attack_moves, move_id) ELSE attack_moves,
                        support_moves)
                ELSE PartitionMoves(Tail(available_moves),
                        attack_moves,
                        IF move_id \notin Range(support_moves)
                            THEN Append(support_moves, move_id) ELSE support_moves)

\* variant: no limit of four on the attacking moves
SelectFromLearnset_no_attack_cap(attack_moves, support_moves) ==
    LET sel == Take(attack_moves, 6)
    IN  sel \o Take(support_moves, Max2(0, 6 - Len(sel)))

\* selected = attack_moves[:4]; selected.extend(support_moves[:max(0, 6 - len(selected))])
SelectFromLearnset(attack_moves, support_moves) ==
    LET sel == Take(attack_moves, 4)
    IN  sel \o Take(support_moves, Max2(0, 6 - Len(sel)))

\* variant: the fallback loop without its `not in selected` test
RECURSIVE FillFromFallback_no_dedup(_, _)
FillFromFallback_no_dedup(sel, fb) ==
    IF fb = <<>> THEN sel
    ELSE LET sel2 == Append(sel, Head(fb))
         IN  IF Len(sel2) >= 6 THEN sel2 ELSE FillFromFallback_no_dedup(sel2, Tail(fb))

\* variant: the fallback loop stopping one move early
RECURSIVE FillFromFallback_stop_at_five(_, _)
FillFromFallback_stop_at_five(sel, fb) ==
    IF fb = <<>> THEN sel
    ELSE LET move_id == Head(fb)
             sel2 == IF move_id \notin Range(sel) THEN Append(sel, move_id) ELSE sel
         IN  IF Len(sel2) >= 5 THEN sel2 ELSE FillFromFallback_stop_at_five(sel2, Tail(fb))

\* the loop over the fallback list, entered when len(selected) < 6
RECURSIVE FillFromFallback(_, _)
FillFromFallback(sel, fb) ==
    IF fb = <<>> THEN sel
    ELSE LET move_id == Head(fb)
             sel2 == IF move_id \notin Range(sel) THEN Append(sel, move_id) ELSE sel
         IN  IF Len(sel2) >= 6 THEN sel2 ELSE FillFromFallback(sel2, Tail(fb))

\* _generate_raid_moveset, given what the two learnset queries return
GenerateFrom(available_moves, fallback_moves) ==
    LET parts == PartitionMoves(available_moves, <<>>, <<>>)
        sel == SelectFromLearnset(parts[1], parts[2])
        filled == IF Len(sel) < 6 THEN FillFromFallback(sel, fallback_moves) ELSE sel
    IN  Take(filled, 6)

_generate_raid_moveset(species_name, level) ==
    GenerateFrom(get_moves_at_level(species_name, level),
                 get_starting_moves(species_name, level, 6))

\* variant: the upper limit only
clamp_level_no_floor(level) == Min2(level, MAX_LEVEL)

\* level = max(1, min(level, self.MAX_LEVEL))
clamp_level(level) == Max2(1, Min2(level, MAX_LEVEL))

\* truthiness of the move_ids argument in `move_ids or ...`
Truthy(move_ids) == ~IsNone(move_ids) /\ Len(Value(move_ids)) > 0

UsesResolver(move_ids) == ~Truthy(move_ids)

ResolvedMoves(move_ids, species_name, level) ==
    IF UsesResolver(move_ids) THEN _generate_raid_moveset(species_name, level)
    ELSE Value(move_ids)

\* the Pokemon built at lines 80-88, with the raid boss attributes set on it
BuildPokemon(species_data, level) ==
    Pokemon(species_data, level, NoneVal) @@
    [is_raid_boss |-> TRUE, raid_stat_multiplier |-> 2, raid_level_cap |-> MAX_LEVEL]

RaidPokemonConfig(pokemon, move_ids, source) ==
    [pokemon |-> pokemon, move_ids |-> move_ids, source |-> source,
     raid_stat_multiplier |-> 2, enrages_after_turns |-> NoneVal]

RaidEncounter(raid_id, location_id, created_by, created_at, pokemon_config) ==
    [raid_id |-> raid_id, location_id |-> location_id, created_by |-> created_by,
     created_at |-> created_at, pokemon_config |-> pokemon_config]

\* the encounter create_manual_raid builds for a resolved species
BuildEncounter(location_id, species_data, level, created_by, move_ids, source, raid_id, now) ==
    RaidEncounter(raid_id, location_id, created_by, now,
        RaidPokemonConfig(BuildPokemon(species_data, level),
                          ResolvedMoves(move_ids, species_data.name, level),
                          source))

\* variant: dict.setdefault, an occupied location keeps its encounter
StoreRaid_setdefault(raids, location_id, encounter) ==
    [l \in DOMAIN raids \cup {location_id} |->
        IF l \in DOMAIN raids THEN raids[l] ELSE encounter]

\* variant: an occupied location keeps its encounter object, whose
\* pokemon_config is replaced
StoreRaid_update_in_place(raids, location_id, encounter) ==
    [l \in DOMAIN raids \cup {location_id} |->
        IF l # location_id THEN raids[l]
        ELSE IF l \in DOMAIN raids
                THEN [raids[l] EXCEPT !.pokemon_config = encounter.pokemon_config]
                ELSE encounter]

\* self.active_raids[location_id] = encounter
StoreRaid(raids, location_id, encounter) ==
    [l \in DOMAIN raids \cup {location_id} |->
        IF l = location_id THEN encounter ELSE raids[l]]

\* self.active_raids.pop(location_id, None)
PopRaid(raids, location_id) ==
    [l \in DOMAIN raids \ {location_id} |-> raids[l]]

\* uuid.uuid4(): a value no earlier call returned, given how many were drawn
uuid4(drawn) == drawn + 1

\* variant: the location's previous encounter is dropped before the species is
\* validated
create_manual_raid_clear_first(raids, location_id, species_identifier, level, created_by, move_ids, source, drawn, now) ==
    LET lvl == clamp_level(level)
        species_data == get_species(species_identifier)
    IN  IF IsNone(species_data)
            THEN [raised |-> TRUE, ret |-> NoneVal, raids |-> PopRaid(raids, location_id),
                  resolver |-> NoneVal]
            ELSE LET encounter ==
                        BuildEncounter(location_id, Value(species_data), lvl, created_by,
                                       move_ids, source, uuid4(drawn), now)
                 IN  [raised |-> FALSE, ret |-> Some(encounter),
                      raids |-> StoreRaid(raids, location_id, encounter),
                      resolver |-> IF UsesResolver(move_ids)
                                      THEN Some(<<Value(species_data).name, lvl>>)
                                      ELSE NoneVal]

\* create_manual_raid as a function of the registry: whether it raised, what it
\* returned, the registry it leaves and the resolver call it made
create_manual_raid(raids, location_id, species_identifier, level, created_by, move_ids, source, drawn, now) ==
    LET lvl == clamp_level(level)
        species_data == get_species(species_identifier)
    IN  IF IsNone(species_data)
            THEN [raised |-> TRUE, ret |-> NoneVal, raids |-> raids,
                  resolver |-> NoneVal]
            ELSE LET encounter ==
                        BuildEncounter(location_id, Value(species_data), lvl, created_by,
                                       move_ids, source, uuid4(drawn), now)
                 IN  [raised |-> FALSE, ret |-> Some(encounter),
                      raids |-> StoreRaid(raids, location_id, encounter),
                      resolver |-> IF UsesResolver(move_ids)
                                      THEN Some(<<Value(species_data).name, lvl>>)
                                      ELSE NoneVal]

\* self.active_raids.get(location_id)
get_raid(raids, location_id) ==
    IF location_id \in DOMAIN raids THEN Some(raids[location_id]) ELSE NoneVal

----------------------------------------------------------------------------
(* Sequential use of the registry *)

MoveIdsInputs ==
    {NoneVal, Some(<<>>), Some(<<"surf", "growl">>),
     Some(<<"tackle", "ember", "slash", "surf", "bite", "growl", "leer">>)}

NoCall ==
    [op |-> "none", location_id |-> "", species_identifier |-> "", level |-> 0,
     move_ids |-> NoneVal, raised |-> FALSE, ret |-> NoneVal]

InitRegistry ==
    /\ active_raids = <<>>
    /\ uuid_next = 0
    /\ clock = 0
    /\ last = NoCall
    /\ resolver_call = NoneVal
    /\ latest = [l \in Locations |-> NoneVal]

InitResolverIdle ==
    /\ learnset = <<>>
    /\ fallback = <<>>
    /\ selected = <<>>
    /\ rpc = "idle"

Threads == {1, 2}

NoThread ==
    [pc |-> "idle", location_id |-> "", species_identifier |-> "", level |-> 0,
     created_by |-> 0, move_ids |-> NoneVal, source |-> "",
     species_data |-> NoneVal, config |-> NoneVal, encounter |-> NoneVal,
     ret |-> NoneVal, raised |-> FALSE]

InitRaceIdle == thr = [t \in Threads |-> NoThread]

InitSpriteIdle ==
    /\ sprite_args = NoneVal
    /\ sprite_ret = NoneVal

Init == InitRegistry /\ InitResolverIdle /\ InitRaceIdle /\ InitSpriteIdle

CreateManualRaid(location_id, species_identifier, level, created_by, move_ids, source) ==
    LET out == create_manual_raid(active_raids, location_id, species_identifier, level,
                                  created_by, move_ids, source, uuid_next, clock)
    IN  /\ uuid_next < MaxRaids
        /\ active_raids' = out.raids
        /\ resolver_call' = out.resolver
        /\ last' = [op |-> "create", location_id |-> location_id,
                    species_identifier |-> species_identifier, level |-> level,
                    move_ids |-> move_ids, raised |-> out.raised, ret |-> out.ret]
        /\ uuid_next' = IF out.raised THEN uuid_next ELSE uuid_next + 1
        /\ latest' = IF out.raised THEN latest
                      ELSE [latest EXCEPT ![location_id] = out.ret]
        /\ clock' = IF out.raised THEN clock ELSE clock + 1
        /\ UNCHANGED <<resolverVars, raceVars, spriteVars>>

GetRaid(location_id) ==
    /\ last' = [NoCall EXCEPT !.op = "get", !.location_id = location_id,
                              !.ret = get_raid(active_raids, location_id)]
    /\ resolver_call' = NoneVal
    /\ UNCHANGED <<active_raids, uuid_next, clock, latest, resolverVars, raceVars, spriteVars>>

ClearRaid(location_id) ==
    /\ active_raids' = PopRaid(active_raids, location_id)
    /\ last' = [NoCall EXCEPT !.op = "clear", !.location_id = location_id]
    /\ resolver_call' = NoneVal
    /\ latest' = [latest EXCEPT ![location_id] = NoneVal]
    /\ UNCHANGED <<uuid_next, clock, resolverVars, raceVars, spriteVars>>

Next ==
    \/ \E l \in Locations, i \in SpeciesIdentifiers, lv \in LevelInputs,
          c \in Creators, m \in MoveIdsInputs, s \in Sources :
            CreateManualRaid(l, i, lv, c, m, s)
    \/ \E l \in Locations : GetRaid(l)
    \/ \E l \in Locations : ClearRaid(l)

Spec == Init /\ [][Next]_vars

----------------------------------------------------------------------------
(* The moveset resolver on the lists its collaborators may return *)

\* The resolver only compares identifiers and asks for their category, so the
\* lists are enumerated up to renaming identifiers of one kind: in the learnset
\* followed by the fallback list, attacking identifiers first occur in the
\* order of AttackIds and the others in the order of SupportIds.
AttackIds == <<"tackle", "ember", "slash", "surf", "bite">>
SupportIds == <<"growl", "splash", "mystery">>

NextUnused(ids, used) ==
    LET free == {i \in 1..Len(ids) : ids[i] \notin used}
    IN  IF free = {} THEN {}
        ELSE {ids[CHOOSE i \in free : \A j \in free : i <= j]}

NextMoves(s) ==
    Range(s) \cup NextUnused(AttackIds, Range(s)) \cup NextUnused(SupportIds, Range(s))

RECURSIVE MoveLists(_)
MoveLists(n) ==
    IF n = 0 THEN {<<>>}
    ELSE UNION {{Append(s, m) : m \in NextMoves(s)} : s \in MoveLists(n - 1)}

InitResolver ==
    /\ InitRegistry
    /\ \E n \in 0..MaxInputMoves : \E s \in MoveLists(n) : \E k \in 0..n :
            /\ learnset = SubSeq(s, 1, k)
            /\ fallback = SubSeq(s, k + 1, n)
    /\ selected = <<>>
    /\ rpc = "ready"
    /\ InitRaceIdle
    /\ InitSpriteIdle

Resolve ==
    /\ rpc = "ready"
    /\ selected' = GenerateFrom(learnset, fallback)
    /\ rpc' = "done"
    /\ UNCHANGED <<learnset, fallback, registryVars, raceVars, spriteVars>>

NextResolver == Resolve

SpecResolver == InitResolver /\ [][NextResolver]_vars

IsAttacking(m) == m \in Range(AttackIds)

\* positions of the first occurrences in s of the identifiers of one kind
FirstAttacking(s) ==
    {i \in 1..Len(s) : IsAttacking(s[i]) /\ \A j \in 1..(i - 1) : s[j] # s[i]}
FirstSupport(s) ==
    {i \in 1..Len(s) : ~IsAttacking(s[i]) /\ \A j \in 1..(i - 1) : s[j] # s[i]}
FirstAny(s) ==
    {i \in 1..Len(s) : \A j \in 1..(i - 1) : s[j] # s[i]}

\* the k-th smallest member of a set of positions
Kth(I, k) == CHOOSE i \in I : Cardinality({j \in I : j < i}) = k - 1

\* C4: the resolver's result has at most 6 entries and no identifier twice,
\* whatever the learnset and the fallback list are.
C4_AtMostSixNoDuplicates ==
    rpc = "done" => (Len(selected) <= 6 /\ NoDuplicates(selected))

\* six moves, some of them from the fallback list, chosen from lists that
\* repeat an identifier
C4_Witness ==
    /\ rpc = "done"
    /\ Len(selected) = 6
    /\ learnset # <<>>
    /\ ~(Range(selected) \subseteq Range(learnset))
    /\ ~NoDuplicates(learnset \o fallback)

\* C5: with at least 4 distinct attacking and at least 2 distinct other moves
\* in the learnset, the result is the first 4 distinct attacking moves in
\* learnset order followed by the first 2 distinct other moves in learnset
\* order, whatever the fallback list is.
C5_FourAttacksThenTwoSupport ==
    (/\ rpc = "done"
     /\ Cardinality(FirstAttacking(learnset)) >= 4
     /\ Cardinality(FirstSupport(learnset)) >= 2) =>
        /\ Len(selected) = 6
        /\ \A k \in 1..4 : selected[k] = learnset[Kth(FirstAttacking(learnset), k)]
        /\ \A k \in 1..2 : selected[4 + k] = learnset[Kth(FirstSupport(learnset), k)]

\* a fifth attacking move is learnt before the second support move
C5_Witness ==
    /\ rpc = "done"
    /\ Cardinality(FirstAttacking(learnset)) = 5
    /\ Cardinality(FirstSupport(learnset)) = 2
    /\ Kth(FirstAttacking(learnset), 5) < Kth(FirstSupport(learnset), 2)

\* C6 as stated: with an empty learnset the result is the fallback list cut to
\* its first 6 entries, and the result is empty only if both lists are.
C6_FallbackReturnedAsIs ==
    /\ (rpc = "done" /\ learnset = <<>>) => selected = Take(fallback, 6)
    /\ (rpc = "done" /\ selected = <<>>) => (learnset = <<>> /\ fallback = <<>>)

\* C6 amended: with an empty learnset the result is the fallback list's
\* distinct identifiers in order of first occurrence, cut to the first 6 of
\* them; a fallback list without repeats is returned as it is, cut to 6; the
\* result is empty only if both lists are.
C6_FallbackDistinctInOrder ==
    /\ (rpc = "done" /\ learnset = <<>>) =>
            /\ Len(selected) = Min2(6, Cardinality(FirstAny(fallback)))
            /\ \A k \in 1..Len(selected) : selected[k] = fallback[Kth(FirstAny(fallback), k)]
            /\ NoDuplicates(fallback) => selected = Take(fallback, 6)
    /\ (rpc = "done" /\ selected = <<>>) => (learnset = <<>> /\ fallback = <<>>)

\* a fallback list of seven entries, six of them distinct
C6_Witness ==
    /\ rpc = "done"
    /\ learnset = <<>>
    /\ Len(fallback) = 7
    /\ ~NoDuplicates(fallback)
    /\ Len(selected) = 6

----------------------------------------------------------------------------
(* Two threads calling create_manual_raid at the same time *)

RaceLevelInputs == {12, 301}
RaceMoveIdsInputs == {NoneVal, Some(<<"surf", "growl">>)}

ThreadCalls ==
    {[NoThread EXCEPT !.pc = "l75", !.location_id = l, !.species_identifier = i,
                      !.level = lv, !.created_by = c, !.move_ids = m, !.source = s] :
        l \in Locations, i \in SpeciesIdentifiers, lv \in RaceLevelInputs,
        c \in Creators, m \in RaceMoveIdsInputs, s \in Sources}

InitRace ==
    /\ InitRegistry
    /\ InitResolverIdle
    /\ InitSpriteIdle
    /\ thr \in [Threads -> ThreadCalls]

\* lines 75-78: clamp the level, look the species up, raise if it is unknown
ThreadLookup(t) ==
    LET me == thr[t]
        species_data == get_species(me.species_identifier)
    IN  /\ me.pc = "l75"
        /\ thr' = [thr EXCEPT ![t] =
                IF IsNone(species_data)
                    THEN [me EXCEPT !.level = clamp_level(me.level),
                                    !.raised = TRUE, !.pc = "raised"]
                    ELSE [me EXCEPT !.level = clamp_level(me.level),
                                    !.species_data = species_data, !.pc = "l80"]]
        /\ UNCHANGED <<registryVars, resolverVars, spriteVars>>

\* lines 80-96: the Pokemon, its moves and the config
ThreadBuildConfig(t) ==
    LET me == thr[t]
        species_data == Value(me.species_data)
    IN  /\ me.pc = "l80"
        /\ thr' = [thr EXCEPT ![t] =
                [me EXCEPT !.config = Some(RaidPokemonConfig(
                                        BuildPokemon(species_data, me.level),
                                        ResolvedMoves(me.move_ids, species_data.name, me.level),
                                        me.source)),
                           !.pc = "l98"]]
        /\ UNCHANGED <<registryVars, resolverVars, spriteVars>>

\* lines 98-104: the encounter, with a new raid id and the current time
ThreadNewEncounter(t) ==
    LET me == thr[t]
    IN  /\ me.pc = "l98"
        /\ thr' = [thr EXCEPT ![t] =
                [me EXCEPT !.encounter = Some(RaidEncounter(uuid4(uuid_next), me.location_id,
                                                me.created_by, clock, Value(me.config))),
                           !.pc = "l106"]]
        /\ uuid_next' = uuid_next + 1
        /\ clock' = clock + 1
        /\ UNCHANGED <<active_raids, last, resolver_call, latest, resolverVars, spriteVars>>

\* line 106: the registry write
ThreadStore(t) ==
    LET me == thr[t]
    IN  /\ me.pc = "l106"
        /\ active_raids' = StoreRaid(active_raids, me.location_id, Value(me.encounter))
        /\ thr' = [thr EXCEPT ![t] = [me EXCEPT !.pc = "l107"]]
        /\ UNCHANGED <<uuid_next, clock, last, resolver_call, latest, resolverVars, spriteVars>>

\* line 107: return encounter
ThreadReturn(t) ==
    LET me == thr[t]
    IN  /\ me.pc = "l107"
        /\ thr' = [thr EXCEPT ![t] = [me EXCEPT !.ret = me.encounter, !.pc = "done"]]
        /\ UNCHANGED <<registryVars, resolverVars, spriteVars>>

NextRace ==
    \E t \in Threads :
        \/ ThreadLookup(t)
        \/ ThreadBuildConfig(t)
        \/ ThreadNewEncounter(t)
        \/ ThreadStore(t)
        \/ ThreadReturn(t)

SpecRace == InitRace /\ [][NextRace]_vars

\* C9: two concurrent create_manual_raid calls for one location with known
\* species both return an encounter without raising; the two encounters have
\* different raid ids; and once both have returned the registry holds, at that
\* location, exactly the encounter one of them returned, field for field.
C9_ConcurrentCreatesLastWriteWins ==
    (/\ thr[1].location_id = thr[2].location_id
     /\ \A t \in Threads : ~IsNone(get_species(thr[t].species_identifier))) =>
        /\ \A t \in Threads : ~thr[t].raised /\ thr[t].pc # "raised"
        /\ (\A t \in Threads : thr[t].pc = "done") =>
                /\ \A t \in Threads : ~IsNone(thr[t].ret)
                /\ Value(thr[1].ret).raid_id # Value(thr[2].ret).raid_id
                /\ DOMAIN active_raids = {thr[1].location_id}
                /\ active_raids[thr[1].location_id] \in
                        {Value(thr[1].ret), Value(thr[2].ret)}

\* both calls have returned and the one that drew its raid id first wrote last
C9_Witness ==
    /\ \A t \in Threads : thr[t].pc = "done" /\ ~IsNone(thr[t].ret)
    /\ thr[1].location_id = thr[2].location_id
    /\ \E t \in Threads :
            /\ active_raids[thr[t].location_id] = Value(thr[t].ret)
            /\ Value(thr[t].ret).raid_id = uuid4(0)

----------------------------------------------------------------------------
(* PokemonSpriteHelper: strings are sequences of one-character strings *)

UpperCase == <<"A", "B", "C", "D", "E", "F", "G", "H", "I", "J", "K", "L", "M", "N", "O", "P", "Q", "R", "S", "T", "U", "V", "W", "X", "Y", "Z">>
LowerCase == <<"a", "b", "c", "d", "e", "f", "g", "h", "i", "j", "k", "l", "m", "n", "o", "p", "q", "r", "s", "t", "u", "v", "w", "x", "y", "z">>

\* str.lower()
Lower(str) ==
    [i \in 1..Len(str) |->
        IF \E k \in 1..Len(UpperCase) : UpperCase[k] = str[i]
            THEN LowerCase[CHOOSE k \in 1..Len(UpperCase) : UpperCase[k] = str[i]]
            ELSE str[i]]

\* str.replace(ch, '')
Remove(str, ch) == SelectSeq(str, LAMBDA c : c # ch)

\* str.split('-')
RECURSIVE SplitHyphen(_, _)
SplitHyphen(str, current) ==
    IF str = <<>> THEN <<current>>
    ELSE IF Head(str) = "-" THEN <<current>> \o SplitHyphen(Tail(str), <<>>)
    ELSE SplitHyphen(Tail(str), Append(current, Head(str)))

\* '-'.join(segments)
RECURSIVE JoinHyphen(_)
JoinHyphen(segments) ==
    IF segments = <<>> THEN <<>>
    ELSE IF Len(segments) = 1 THEN segments[1]
    ELSE segments[1] \o <<"-">> \o JoinHyphen(Tail(segments))

\* ''.join(segments)
RECURSIVE Join(_)
Join(segments) ==
    IF segments = <<>> THEN <<>> ELSE Head(segments) \o Join(Tail(segments))

DigitChars == <<"0", "1", "2", "3", "4", "5", "6", "7", "8", "9">>

\* str(n) for n >= 0
RECURSIVE Decimal(_)
Decimal(n) ==
    IF n < 10 THEN <<DigitChars[n + 1]>>
    ELSE Append(Decimal(n \div 10), DigitChars[(n % 10) + 1])

\* f"{n:03d}" for n >= 0
RECURSIVE ZeroPad3(_)
ZeroPad3(digits) == IF Len(digits) >= 3 THEN digits ELSE ZeroPad3(<<"0">> \o digits)

\* the URL templates, split at their placeholder
GEN5_ANIMATED ==
    [prefix |-> "https://play.pokemonshowdown.com/sprites/gen5ani/", suffix |-> ".gif"]
GEN5_ANIMATED_SHINY ==
    [prefix |-> "https://play.pokemonshowdown.com/sprites/gen5ani-shiny/", suffix |-> ".gif"]
GEN5_STATIC ==
    [prefix |-> "https://play.pokemonshowdown.com/sprites/gen5/", suffix |-> ".png"]
GEN5_STATIC_SHINY ==
    [prefix |-> "https://play.pokemonshowdown.com/sprites/gen5-shiny/", suffix |-> ".png"]
SHOWDOWN_STATIC ==
    [prefix |-> "https://play.pokemonshowdown.com/sprites/pokemon/", suffix |-> ".png"]
SHOWDOWN_STATIC_SHINY ==
    [prefix |-> "https://play.pokemonshowdown.com/sprites/pokemon/shiny/", suffix |-> ".png"]
POKEAPI_FRONT ==
    [prefix |-> "https://raw.githubusercontent.com/PokeAPI/sprites/master/sprites/pokemon/",
     suffix |-> ".png"]
POKEAPI_FRONT_FEMALE ==
    [prefix |-> "https://raw.githubusercontent.com/PokeAPI/sprites/master/sprites/pokemon/female/",
     suffix |-> ".png"]
POKEAPI_SHINY ==
    [prefix |-> "https://raw.githubusercontent.com/PokeAPI/sprites/master/sprites/pokemon/shiny/",
     suffix |-> ".png"]
POKEAPI_SHINY_FEMALE ==
    [prefix |-> "https://raw.githubusercontent.com/PokeAPI/sprites/master/sprites/pokemon/shiny/female/",
     suffix |-> ".png"]
OFFICIAL_ART ==
    [prefix |-> "https://assets.pokemon.com/assets/cms2/img/pokedex/full/", suffix |-> ".png"]

\* template.format(name=...) or template.format(id=...)
Format(template, arg) ==
    [prefix |-> template.prefix, arg |-> arg, suffix |-> template.suffix]

FEMALE == <<"f", "e", "m", "a", "l", "e">>
MALE == <<"m", "a", "l", "e">>

\* gender and gender.lower() == "female"
IsFemale(gender) == ~IsNone(gender) /\ Lower(Value(gender)) = FEMALE

_gendered_name(name, gender) ==
    IF IsFemale(gender) THEN name \o <<"-", "f">> ELSE name

StrReturn(url) == [kind |-> "str", urls |-> <<url>>]
ListReturn(urls) == [kind |-> "list", urls |-> urls]
Raise(message) == [kind |-> "ValueError", urls |-> <<>>, message |-> message]

\* lines 64-91: the sprite slug and the gender, from the name, form and gender given
SpriteSlug(pokemon_name, form, gender) ==
    LET raw_name == Remove(Remove(Remove(Lower(pokemon_name), " "), "'"), ".")
        segments == SplitHyphen(raw_name, <<>>)
        last_segment == segments[Len(segments)]
        from_gender == /\ Len(segments) > 1
                       /\ IsNone(gender)
                       /\ last_segment \in {<<"f">>, FEMALE, <<"m">>, MALE}
        from_form == Len(segments) > 1 /\ ~from_gender /\ IsNone(form)
        inferred_gender ==
            IF from_gender
                THEN (IF Head(last_segment) = "f" THEN Some(FEMALE) ELSE Some(MALE))
                ELSE gender
        inferred_form ==
            IF from_form THEN Some(JoinHyphen(Tail(segments))) ELSE form
        base_segments ==
            IF from_gender THEN SubSeq(segments, 1, Len(segments) - 1)
            ELSE IF from_form THEN <<segments[1]>>
            ELSE segments
        name == Join(base_segments)
    IN  [name |-> IF ~IsNone(inferred_form) /\ Value(inferred_form) # <<>>
                    THEN name \o <<"-">> \o Lower(Value(inferred_form))
                    ELSE name,
         gender |-> inferred_gender]

\* lines 93-115: the `style == 'animated'` branch
AnimatedSprite(name, gender, dex_number, shiny, use_fallback) ==
    LET gendered_name == _gendered_name(name, gender)
        static_fallback == Format(IF shiny THEN GEN5_STATIC_SHINY ELSE GEN5_STATIC,
                                  gendered_name)
        animated_url == Format(IF shiny THEN GEN5_ANIMATED_SHINY ELSE GEN5_ANIMATED,
                               gendered_name)
    IN  IF ~IsNone(dex_number) /\ Value(dex_number) # 0 /\ Value(dex_number) >= 810
            THEN StrReturn(static_fallback)
        ELSE IF use_fallback THEN ListReturn(<<animated_url, static_fallback>>)
        ELSE StrReturn(animated_url)

get_sprite(pokemon_name, dex_number, style, shiny, use_fallback, form, gender_arg) ==
    LET slug == SpriteSlug(pokemon_name, form, gender_arg)
        name == slug.name
        gender == slug.gender
    IN  CASE style = "animated" ->
                AnimatedSprite(name, gender, dex_number, shiny, use_fallback)
          [] style = "gen5static" ->
                StrReturn(Format(IF shiny THEN GEN5_STATIC_SHINY ELSE GEN5_STATIC,
                                 _gendered_name(name, gender)))
          [] style = "showdown" ->
                StrReturn(Format(IF shiny THEN SHOWDOWN_STATIC_SHINY ELSE SHOWDOWN_STATIC,
                                 _gendered_name(name, gender)))
          [] style = "static" ->
                IF IsNone(dex_number) THEN Raise("dex_number required for static sprites")
                ELSE IF IsFemale(gender)
                    THEN StrReturn(Format(IF shiny THEN POKEAPI_SHINY_FEMALE
                                          ELSE POKEAPI_FRONT_FEMALE,
                                          Decimal(Value(dex_number))))
                ELSE StrReturn(Format(IF shiny THEN POKEAPI_SHINY ELSE POKEAPI_FRONT,
                                      Decimal(Value(dex_number))))
          [] style = "official" ->
                IF IsNone(dex_number) THEN Raise("dex_number required for official art")
                ELSE StrReturn(Format(OFFICIAL_ART, ZeroPad3(Decimal(Value(dex_number)))))
          [] OTHER -> Raise("Unknown style")

ARMAROUGE == <<"A", "r", "m", "a", "r", "o", "u", "g", "e">>

SpriteNames ==
    {<<"A", "r", "m", "a", "r", "o", "u", "g", "e">>,
     <<"M", "r", ".", " ", "M", "i", "m", "e">>,
     <<"g", "r", "o", "w", "l", "i", "t", "h", "e", "-", "h", "i", "s", "u", "i">>,
     <<"C", "h", "a", "r", "i", "z", "a", "r", "d">>,
     <<"m", "e", "o", "w", "s", "t", "i", "c", "-", "f">>,
     <<"F", "a", "r", "f", "e", "t", "c", "h", "'", "d">>,
     <<"h", "o", "-", "o", "h">>}
SpriteDexNumbers == {NoneVal, Some(0), Some(6), Some(58), Some(809), Some(810), Some(936)}
SpriteStyles == {"animated", "gen5static", "showdown", "static", "official", "hd"}
SpriteForms == {NoneVal, Some(<<"A", "l", "o", "l", "a">>)}
SpriteGenders == {NoneVal, Some(FEMALE), Some(<<"M", "a", "l", "e">>)}

InitSprite ==
    /\ InitRegistry
    /\ InitResolverIdle
    /\ InitRaceIdle
    /\ sprite_args \in
        {Some([pokemon_name |-> n, dex_number |-> d, style |-> st, shiny |-> sh,
               use_fallback |-> fb, form |-> f, gender |-> g]) :
            n \in SpriteNames, d \in SpriteDexNumbers, st \in SpriteStyles,
            sh \in BOOLEAN, fb \in BOOLEAN, f \in SpriteForms, g \in SpriteGenders}
    /\ sprite_ret = NoneVal

GetSprite ==
    /\ ~IsNone(sprite_args)
    /\ IsNone(sprite_ret)
    /\ LET a == Value(sprite_args)
       IN  sprite_ret' = Some(get_sprite(a.pokemon_name, a.dex_number, a.style, a.shiny,
                                         a.use_fallback, a.form, a.gender))
    /\ UNCHANGED <<sprite_args, registryVars, resolverVars, raceVars>>

NextSprite == GetSprite

SpecSprite == InitSprite /\ [][NextSprite]_vars

\* C10: get_sprite with style 'animated' and fallback enabled, for a species
\* with dex number 810 or above, returns a list whose first element is the
\* species' gen5 static sprite URL and whose second element is its gen5
\* animated sprite URL, and which does not contain the official-art URL.
C10_ModernSpeciesGen5Chain ==
    (/\ ~IsNone(sprite_ret)
     /\ Value(sprite_args).style = "animated"
     /\ Value(sprite_args).use_fallback
     /\ ~IsNone(Value(sprite_args).dex_number)
     /\ Value(Value(sprite_args).dex_number) >= 810) =>
        LET a == Value(sprite_args)
            r == Value(sprite_ret)
            id == Decimal(Value(a.dex_number))
        IN  /\ r.kind = "list"
            /\ Len(r.urls) >= 2
            /\ r.urls[1].prefix = (IF a.shiny THEN GEN5_STATIC_SHINY ELSE GEN5_STATIC).prefix
            /\ r.urls[1].suffix = ".png"
            /\ r.urls[2].prefix = (IF a.shiny THEN GEN5_ANIMATED_SHINY ELSE GEN5_ANIMATED).prefix
            /\ r.urls[2].suffix = ".gif"
            /\ r.urls[2].arg = r.urls[1].arg
            /\ (a.pokemon_name = ARMAROUGE /\ IsNone(a.form) /\ IsNone(a.gender)) =>
                    r.urls[1].arg = Lower(ARMAROUGE)
            /\ Format(OFFICIAL_ART, id) \notin Range(r.urls)

----------------------------------------------------------------------------
(* Properties of the sequential registry *)

ClampExpected(L) == IF L < 1 THEN 1 ELSE IF L > 300 THEN 300 ELSE L

StoredMoves(encounter) == encounter.pokemon_config.move_ids
StoredLevel(encounter) == encounter.pokemon_config.pokemon.level

\* C1: a create_manual_raid call whose species identifier the species
\* collaborator does not resolve raises, returns nothing and leaves the
\* registry exactly as it was: same locations, same encounters.
C1_UnknownSpeciesLeavesRegistry ==
    [][(last'.op = "create" /\ IsNone(get_species(last'.species_identifier)))
        => (last'.raised /\ IsNone(last'.ret) /\ active_raids' = active_raids)]_vars

C1_Witness ==
    /\ last.op = "create"
    /\ last.raised
    /\ last.location_id \in DOMAIN active_raids

\* C2: get_raid(X) is the encounter of the most recent successful create at X
\* unless a clear_raid(X) came after it, and absent otherwise; a call on
\* another location does not change get_raid(X); clear_raid of a location
\* with no entry changes nothing.
C2_LastWriteWins ==
    /\ [](/\ \A X \in Locations : get_raid(active_raids, X) = latest[X]
          /\ DOMAIN active_raids \subseteq Locations
          /\ last.op = "get" => last.ret = latest[last.location_id]
          /\ (last.op = "create" /\ ~last.raised) =>
                get_raid(active_raids, last.location_id) = last.ret
          /\ last.op = "clear" => IsNone(get_raid(active_raids, last.location_id)))
    /\ [][/\ \A X \in Locations : last'.location_id # X =>
                get_raid(active_raids', X) = get_raid(active_raids, X)
          /\ (last'.op = "clear" /\ last'.location_id \notin DOMAIN active_raids) =>
                active_raids' = active_raids]_vars

\* a second create at an occupied location has replaced the first
C2_Witness ==
    /\ last.op = "create"
    /\ ~last.raised
    /\ uuid_next = 2
    /\ DOMAIN active_raids = {last.location_id}
    /\ active_raids[last.location_id].raid_id = uuid4(1)

\* C3: for a known species create_manual_raid never raises, whatever the
\* level; the stored creature level is 1 for L < 1, 300 for L > 300 and L
\* otherwise, and the moveset resolver, when called, gets that level.
C3_LevelClamped ==
    (last.op = "create" /\ ~IsNone(get_species(last.species_identifier))) =>
        /\ ~last.raised
        /\ ~IsNone(last.ret)
        /\ StoredLevel(Value(last.ret)) = ClampExpected(last.level)
        /\ StoredLevel(active_raids[last.location_id]) = ClampExpected(last.level)
        /\ ~IsNone(resolver_call) =>
                Value(resolver_call)[2] = ClampExpected(last.level)

C3_Witness ==
    /\ last.op = "create"
    /\ last.level < 1
    /\ ~last.raised
    /\ ~IsNone(resolver_call)

\* C7: every stored encounter's move_ids has between 0 and 6 entries, whether
\* the resolver produced them or the caller supplied them.
C7_StoredMovesAtMostSix ==
    \A l \in DOMAIN active_raids : Len(StoredMoves(active_raids[l])) \in 0..6

\* C8: the resolver is called exactly when move_ids is not supplied: a supplied
\* list, the empty list included, is stored as it is without a resolver call;
\* otherwise the resolver's result for the resolved species name and the
\* clamped level is stored.
C8_ResolverOnlyWhenNotSupplied ==
    (last.op = "create" /\ ~last.raised) =>
        IF ~IsNone(last.move_ids)
            THEN /\ StoredMoves(Value(last.ret)) = Value(last.move_ids)
                 /\ IsNone(resolver_call)
            ELSE LET name == Value(get_species(last.species_identifier)).name
                     lvl == ClampExpected(last.level)
                 IN  /\ resolver_call = Some(<<name, lvl>>)
                     /\ StoredMoves(Value(last.ret)) = _generate_raid_moveset(name, lvl)

============================================================================
